---- MODULE Spec2Model ----
(***************************************************************************)
(* A model of cat'semuhdrv0.py: the MipsCore interpreter (registers, PC,   *)
(* 8 MiB memory image, cycle counter, fetch / decode / execute) and the    *)
(* LibretroBackend controller that drives it from a worker thread.         *)
(*                                                                         *)
(* Number representation.  Python integers are unbounded and the core      *)
(* masks register results to 32 bits, while TLC's integers are 32-bit      *)
(* signed.  Every Python integer that can reach 2^31 (a register, the PC,  *)
(* an instruction word) is therefore carried as two limbs <<hi, lo>> that  *)
(* stand for hi * 2^16 + lo, with 0 <= lo < 2^16 and hi any integer (hi    *)
(* is negative for a negative Python integer).  The limb operators below   *)
(* compute exactly what the Python operators compute on the integer.       *)
(*                                                                         *)
(* Byte strings (the bytearray memory, the bytes of a file) are carried    *)
(* sparsely: [len |-> n, at |-> f] is the string of n bytes whose byte at  *)
(* offset i is f[i] for i in DOMAIN f and 0 elsewhere; f holds non-zero    *)
(* bytes only, so equal strings are equal records.                         *)
(***************************************************************************)
EXTENDS Integers, Sequences, FiniteSets, TLC

VARIABLES core,     \* LibretroBackend.core: the MipsCore object's fields
          thread,   \* LibretroBackend.thread: 0 for None, else a worker id
          active,   \* LibretroBackend.active
          workers,  \* every Thread object created so far: its position in _run_loop
          ui,       \* the UI thread: "idle" between calls, or its position inside stop()
          told,     \* history: what the start() / stop() calls so far have set up, and
                    \* the cycle counts the last two get_state_string() calls read
          last      \* history: the operation that ran last and the state it ran in

vars == <<core, thread, active, workers, ui, told, last>>

----------------------------------------------------------------------------
(* Bounds of the model *)

\* step() is not explored once the cycle counter has reached MaxCycles, and the
\* worker begins no burst that would take the counter past it
MaxCycles == 5

\* the steps of one burst: range(100) in _run_loop, run here as range(BurstSize)
BurstSize == 2

\* Thread objects start() may create in one run
MaxThreads == 2

----------------------------------------------------------------------------
(* Integers in limbs *)

Limb == 2^16

Min(a, b) == IF a <= b THEN a ELSE b

\* the integer hi * 2^16 + lo, for any integers hi and lo, in normal form
W(hi, lo) == <<hi + (lo \div Limb), lo % Limb>>

\* a + n for a limb pair a and a small integer n
WAddInt(a, n) == W(a[1], a[2] + n)

\* a + b for limb pairs
WAdd(a, b) == W(a[1] + b[1], a[2] + b[2])

\* x & 0xFFFFFFFF
Mask32(a) == <<a[1] % Limb, a[2]>>

\* 0 <= x < 2^32
IsU32(a) == a[1] >= 0 /\ a[1] < Limb /\ a[2] >= 0 /\ a[2] < Limb

Zero32 == <<0, 0>>

\* ctypes.c_short(x).value for 0 <= x < 2^16: the two's-complement reading
c_short(x) == IF x >= 2^15 THEN x - 2^16 ELSE x

----------------------------------------------------------------------------
(* Byte strings *)

EmptyAt == [i \in {} |-> 0]

Byte(b, i) == IF i \in DOMAIN b.at THEN b.at[i] ELSE 0

\* bytes(seq): the byte string of a sequence of bytes
FromSeq(s) ==
    [len |-> Len(s),
     at  |-> [i \in {j \in 0 .. Len(s) - 1 : s[j + 1] # 0} |-> s[i + 1]]]

\* b[lo:hi] for 0 <= lo <= hi, as a sequence: Python clamps hi to len(b)
Slice(b, lo, hi) ==
    LET n == Min(hi, b.len) - lo
    IN  IF n <= 0 THEN <<>> ELSE [k \in 1 .. n |-> Byte(b, lo + k - 1)]

\* mem[:n] = data[:n] for n <= len(data), n <= len(mem): the length of mem is kept
StoreSlice(mem, n, data) ==
    [len |-> mem.len,
     at  |-> [i \in {j \in DOMAIN data.at : j < n} \cup {j \in DOMAIN mem.at : j >= n}
                |-> IF i < n THEN data.at[i] ELSE mem.at[i]]]

\* struct.unpack(">I", s)[0] for a 4-byte s (it raises struct.error otherwise)
UnpackBE32(s) == <<s[1] * 256 + s[2], s[3] * 256 + s[4]>>

----------------------------------------------------------------------------
(* MipsCore.  instruction_cache is never read or written and is left out;   *)
(* the print calls have no effect on the state.                             *)

MemSize == 8 * 1024 * 1024

\* 0x80000400
ResetVector == <<32768, 1024>>

\* MipsCore.__init__
NewCore ==
    [regs    |-> [r \in 0 .. 31 |-> Zero32],
     pc      |-> ResetVector,
     memory  |-> [len |-> MemSize, at |-> EmptyAt],
     running |-> FALSE,
     paused  |-> FALSE,
     cycles  |-> 0]

\* reset() with "self.running = False" left out
reset_KeepsRunning(c) ==
    [c EXCEPT !.regs = [r \in 0 .. 31 |-> Zero32], !.pc = ResetVector, !.cycles = 0]

\* MipsCore.reset
reset(c) ==
    [c EXCEPT !.regs = [r \in 0 .. 31 |-> Zero32],
              !.pc = ResetVector,
              !.cycles = 0,
              !.running = FALSE]

\* load_binary() clearing the registers for the program it loads
load_binary_ClearsRegs(c, file) ==
    IF ~file.readable
    THEN [core |-> c, ok |-> FALSE]
    ELSE LET data      == file.data
             load_size == Min(data.len, c.memory.len)
             c1        == [c EXCEPT !.memory = StoreSlice(@, load_size, data)]
             eb        == Slice(data, 8, 12)
         IN  IF Len(eb) # 4
             THEN [core |-> c1, ok |-> FALSE]
             ELSE [core |-> [c1 EXCEPT !.pc = UnpackBE32(eb),
                                       !.regs = [r \in 0 .. 31 |-> Zero32]],
                   ok |-> TRUE]

\* MipsCore.load_binary on a file: [readable, data].  The result is the core left
\* behind and the value returned.
load_binary(c, file) ==
    IF ~file.readable
    THEN [core |-> c, ok |-> FALSE]
    ELSE LET data      == file.data
             load_size == Min(data.len, c.memory.len)
             c1        == [c EXCEPT !.memory = StoreSlice(@, load_size, data)]
             eb        == Slice(data, 8, 12)
         IN  IF Len(eb) # 4
             THEN [core |-> c1, ok |-> FALSE]
             ELSE [core |-> [c1 EXCEPT !.pc = UnpackBE32(eb)], ok |-> TRUE]

\* instruction fields
Opcode(instr) == (instr[1] \div 1024) % 64
Funct(instr)  == instr[2] % 64
Rs(instr)     == (instr[1] \div 32) % 32
Rt(instr)     == instr[1] % 32
Rd(instr)     == (instr[2] \div 2048) % 32
Imm16(instr)  == instr[2]

\* _op_add without "& 0xFFFFFFFF"
op_add_NoWrap(c, instr) ==
    [c EXCEPT !.regs[Rd(instr)] = WAdd(c.regs[Rs(instr)], c.regs[Rt(instr)])]

op_add(c, instr) ==
    [c EXCEPT !.regs[Rd(instr)] = Mask32(WAdd(c.regs[Rs(instr)], c.regs[Rt(instr)]))]

op_addi(c, instr) ==
    [c EXCEPT !.regs[Rt(instr)] = Mask32(WAddInt(c.regs[Rs(instr)], c_short(Imm16(instr))))]

op_lui(c, instr) ==
    [c EXCEPT !.regs[Rt(instr)] = Mask32(<<Imm16(instr), 0>>)]

\* _op_sw storing regs[rt], big-endian, at physical (regs[rs] + offset) & 0x1FFFFFFF
\* when the four bytes are inside the image
op_sw_Stores(c, instr) ==
    LET ea    == WAddInt(c.regs[Rs(instr)], c_short(Imm16(instr)))
        addr  == (ea[1] % 8192) * Limb + ea[2]
        v     == c.regs[Rt(instr)]
        bytes == <<v[1] \div 256, v[1] % 256, v[2] \div 256, v[2] % 256>>
        keep  == {j \in DOMAIN c.memory.at : j < addr \/ j >= addr + 4}
        put   == {j \in addr .. addr + 3 : bytes[j - addr + 1] # 0}
    IN  IF addr + 4 > c.memory.len
        THEN c
        ELSE [c EXCEPT !.memory.at =
                 [i \in keep \cup put |->
                     IF i \in put THEN bytes[i - addr + 1] ELSE c.memory.at[i]]]

op_sw(c, instr) == c

op_lw(c, instr) == c

op_bne(c, instr) ==
    IF c.regs[Rs(instr)] # c.regs[Rt(instr)]
    THEN [c EXCEPT !.pc = WAddInt(@, c_short(Imm16(instr)) * 4 - 4)]
    ELSE c

\* _op_j setting pc = target << 2, the top four bits of the PC dropped
op_j_DropsRegion(c, instr) ==
    [c EXCEPT !.pc = W((instr[1] % 1024) * 4, instr[2] * 4)]

\* (pc & 0xF0000000) | (target << 2), target = instr & 0x03FFFFFF
op_j(c, instr) ==
    LET t4 == W((instr[1] % 1024) * 4, instr[2] * 4)
    IN  [c EXCEPT !.pc = <<((c.pc[1] \div 4096) % 16) * 4096 + t4[1], t4[2]>>]

\* pc & 0x1FFFFFFF, which is below 2^29 and kept as a plain integer
PhysAddr(pc) == (pc[1] % 8192) * Limb + pc[2]

\* step() without the bounds check: the fetch uses the PC as it is
FetchPc_Unchecked(c) == c.pc

\* the PC the fetch uses: the reset vector when the physical address is out of bounds
FetchPc(c) == IF PhysAddr(c.pc) + 4 > c.memory.len THEN ResetVector ELSE c.pc

\* the instruction word read at a physical address; a short read gives 0 (NOP)
Fetch(mem, phys_addr) ==
    LET instr_bytes == Slice(mem, phys_addr, phys_addr + 4)
    IN  IF Len(instr_bytes) = 4 THEN UnpackBE32(instr_bytes) ELSE Zero32

FetchedInstr(c) == Fetch(c.memory, PhysAddr(FetchPc(c)))

Execute(c, instr) ==
    LET opcode == Opcode(instr)
    IN  CASE opcode = 0  -> (IF Funct(instr) = 32 THEN op_add(c, instr) ELSE c)
          [] opcode = 8  -> op_addi(c, instr)
          [] opcode = 15 -> op_lui(c, instr)
          [] opcode = 43 -> op_sw(c, instr)
          [] opcode = 35 -> op_lw(c, instr)
          [] opcode = 5  -> op_bne(c, instr)
          [] opcode = 2  -> op_j(c, instr)
          [] OTHER       -> c

CountCycle(c) == [c EXCEPT !.cycles = @ + 1]

\* step() returning from the "Unknown opcode" branch before "self.cycles += 1"
step_UnknownNotCounted(c) ==
    IF c.paused
    THEN c
    ELSE LET instr == FetchedInstr(c)
             c1    == [c EXCEPT !.pc = WAddInt(FetchPc(c), 4)]
         IN  IF Opcode(instr) \in {0, 8, 15, 43, 35, 5, 2}
             THEN CountCycle(Execute(c1, instr))
             ELSE c1

\* step() with the bounds check moved above the "if self.paused" return
step_PausedCorrectsPc(c) ==
    IF c.paused
    THEN [c EXCEPT !.pc = FetchPc(c)]
    ELSE LET instr == FetchedInstr(c)
             c1    == [c EXCEPT !.pc = WAddInt(FetchPc(c), 4)]
         IN  CountCycle(Execute(c1, instr))

\* MipsCore.step
step(c) ==
    IF c.paused
    THEN c
    ELSE LET instr == FetchedInstr(c)
             c1    == [c EXCEPT !.pc = WAddInt(FetchPc(c), 4)]
         IN  CountCycle(Execute(c1, instr))

----------------------------------------------------------------------------
(* Inputs: instruction words and the files a load can name *)

\* instruction words by field (the inverse of the field extraction above)
IType(op, rs, rt, imm)   == <<op * 1024 + rs * 32 + rt, imm>>
RType(rs, rt, rd, funct) == <<rs * 32 + rt, rd * 2048 + funct>>
JType(target)            == <<2 * 1024 + (target \div Limb), target % Limb>>

\* the four bytes of a word, big-endian
WordBytes(w) == <<w[1] \div 256, w[1] % 256, w[2] \div 256, w[2] % 256>>

ProgBytes(prog) ==
    [k \in 1 .. 4 * Len(prog) |-> WordBytes(prog[((k - 1) \div 4) + 1])[((k - 1) % 4) + 1]]

\* a ROM image: the 0x80371240 magic, four more header bytes, the entry point at
\* offset 8, and the program from offset 0xC on
Rom(entry, prog) ==
    FromSeq(<<128, 55, 18, 64, 0, 0, 0, 15>> \o WordBytes(entry) \o ProgBytes(prog))

\* 0C: ADDI $1,$0,0xFFFF   10: ADD $2,$1,$1   14: LUI $0,0x1234   18: BNE $1,$2,-8
ProgA == <<IType(8, 0, 1, 65535), RType(1, 1, 2, 32), IType(15, 0, 0, 4660),
           IType(5, 1, 2, 65528)>>

\* 0C: BNE $1,$1,+4   10: BNE $1,$2,+4   14: SW $1,0($2)   18: LW $1,0($2)
\* 1C: J 0x00100000   20: ADDI $0,$0,1   24: opcode 0x3F   28: funct 0x21
\* 2C: ADD $0,$1,$1
ProgB == <<IType(5, 1, 1, 4), IType(5, 1, 2, 4), IType(43, 2, 1, 0), IType(35, 2, 1, 0),
           JType(1048576), IType(8, 0, 0, 1), IType(63, 0, 0, 0), RType(1, 2, 3, 33),
           RType(1, 1, 0, 32)>>

\* a file longer than the memory image: ADDI $3,$3,1 in the last word of the image,
\* four non-zero bytes past it, entry point 0x807FFFFC (the last word)
BigRom ==
    [len |-> MemSize + 4,
     at  |-> [i \in {0, 8, 9, 10, 11, MemSize - 4, MemSize - 3, MemSize - 1}
                     \cup (MemSize .. MemSize + 3) |->
                CASE i = 0  -> 128
                  [] i = 8  -> 128
                  [] i = 9  -> 127
                  [] i = 10 -> 255
                  [] i = 11 -> 252
                  [] i = MemSize - 4 -> 32
                  [] i = MemSize - 3 -> 99
                  [] i = MemSize - 1 -> 1
                  [] OTHER -> 170]]

\* what open(path, 'rb').read() gives for each path a load can name
FileSystem(path) ==
    CASE path = "romA"   -> [readable |-> TRUE, data |-> Rom(<<32768, 12>>, ProgA)]
      [] path = "romLow" -> [readable |-> TRUE, data |-> Rom(<<0, 12>>, ProgA)]
      [] path = "romB"   -> [readable |-> TRUE, data |-> Rom(<<32768, 12>>, ProgB)]
      [] path = "romC"   -> [readable |-> TRUE, data |-> Rom(<<32768, 32>>, ProgB)]
      [] path = "big"    -> [readable |-> TRUE, data |-> BigRom]
      [] path = "short"  -> [readable |-> TRUE, data |-> FromSeq(<<128, 55, 18, 64>>)]
      [] OTHER           -> [readable |-> FALSE, data |-> FromSeq(<<>>)]

\* "" is the empty path; "missing" names no readable file
Paths == {"", "missing", "short", "romA", "romLow", "romB", "romC", "big"}

----------------------------------------------------------------------------
(* LibretroBackend.load_rom *)

\* load_rom() starting the loaded program from a reset engine
load_rom_Resets(c, path) ==
    IF path = ""
    THEN [core |-> c, ok |-> FALSE]
    ELSE LET r == load_binary(reset(c), FileSystem(path))
         IN  IF r.ok
             THEN [core |-> [r.core EXCEPT !.running = TRUE], ok |-> TRUE]
             ELSE [core |-> c, ok |-> FALSE]

load_rom(c, path) ==
    IF path = ""
    THEN [core |-> c, ok |-> FALSE]
    ELSE LET r == load_binary(c, FileSystem(path))
         IN  IF r.ok
             THEN [core |-> [r.core EXCEPT !.running = TRUE], ok |-> TRUE]
             ELSE r

\* EmulatorApp.toggle_pause
toggle_pause(c) == [c EXCEPT !.paused = ~c.paused]

----------------------------------------------------------------------------
(* The engine driven call by call: each action is one whole call *)

History(op, arg, ok) ==
    [op |-> op, arg |-> arg, ok |-> ok, pre |-> core,
     ctl |-> [active  |-> active,
              alive   |-> \E w \in DOMAIN workers : workers[w].at # "done",
              threads |-> Len(workers)]]

Init ==
    /\ core = NewCore
    /\ thread = 0
    /\ active = TRUE
    /\ workers = <<>>
    /\ ui = "idle"
    /\ told = [resume |-> "none", started |-> FALSE, seen |-> <<>>]
    /\ last = [op |-> "init", arg |-> "", ok |-> TRUE, pre |-> NewCore,
               ctl |-> [active |-> TRUE, alive |-> FALSE, threads |-> 0]]

LoadRom(path) ==
    /\ ui = "idle"
    /\ core' = load_rom(core, path).core
    /\ told' = [told EXCEPT !.resume = "none"]
    /\ last' = History("load", path, load_rom(core, path).ok)
    /\ UNCHANGED <<thread, active, workers, ui>>

Reset ==
    /\ ui = "idle"
    /\ core' = reset(core)
    /\ told' = [told EXCEPT !.resume = "none", !.seen = <<>>]
    /\ last' = History("reset", "", TRUE)
    /\ UNCHANGED <<thread, active, workers, ui>>

Step ==
    /\ core.paused \/ core.cycles < MaxCycles
    /\ core' = step(core)
    /\ last' = History("step", "", TRUE)
    /\ UNCHANGED <<thread, active, workers, ui, told>>

TogglePause ==
    /\ ui = "idle"
    /\ core' = toggle_pause(core)
    /\ told' = [told EXCEPT !.resume = "none"]
    /\ last' = History("pause", "", TRUE)
    /\ UNCHANGED <<thread, active, workers, ui>>

Next ==
    \/ \E path \in Paths : LoadRom(path)
    \/ Reset
    \/ Step
    \/ TogglePause

Spec == Init /\ [][Next]_vars

----------------------------------------------------------------------------
(* LibretroBackend: the UI thread's calls and the worker thread, interleaved *)
(*                                                                          *)
(* The UI thread makes one call at a time; stop() is split at its two flag  *)
(* writes and its join, so that the worker can run between them.  The       *)
(* worker moves one read of a flag, one step() or one sleep at a time.      *)

\* Thread.is_alive(): started and not yet returned from _run_loop
Alive(w) == w \in DOMAIN workers /\ workers[w].at # "done"

AliveWorkers == {w \in DOMAIN workers : Alive(w)}

\* start() testing the active flag in place of is_alive()
StartReturnsEarly_ByFlag == thread # 0 /\ active

\* start(): "if self.thread and self.thread.is_alive(): return"
StartReturnsEarly == thread # 0 /\ Alive(thread)

\* a worker is executing bursts on a running, unpaused engine
Bursting == AliveWorkers # {} /\ active /\ core.running /\ ~core.paused /\ core.cycles > 0

Start ==
    /\ ui = "idle"
    /\ IF StartReturnsEarly
       THEN UNCHANGED <<thread, active, workers>>
       ELSE /\ Len(workers) < MaxThreads
            /\ active' = TRUE
            /\ workers' = Append(workers, [at |-> "while", i |-> 0])
            /\ thread' = Len(workers) + 1
    /\ told' = [told EXCEPT !.resume  = IF @ = "stopped" THEN "restarted" ELSE "none",
                            !.started = TRUE]
    /\ last' = History("start", "", ~StartReturnsEarly)
    /\ UNCHANGED <<core, ui>>

\* stop(), first statement: self.active = False
StopActive ==
    /\ ui = "idle"
    /\ active' = FALSE
    /\ ui' = "stop"
    /\ told' = [told EXCEPT !.resume  = IF Bursting THEN "stopping" ELSE "none",
                            !.started = FALSE]
    /\ last' = History("stop", "", TRUE)
    /\ UNCHANGED <<core, thread, workers>>

\* stop(), second statement: self.core.running = False, then the join if there is
\* a thread
StopRunning ==
    /\ ui = "stop"
    /\ core' = [core EXCEPT !.running = FALSE]
    /\ ui' = IF thread # 0 THEN "join" ELSE "idle"
    /\ told' = [told EXCEPT !.resume = IF @ = "stopping" /\ thread = 0 THEN "stopped" ELSE @]
    /\ UNCHANGED <<thread, active, workers, last>>

\* thread.join(timeout=1.0) returns: the worker has ended, or the second is over
\* (time is not modelled: a join on a live worker may time out at any moment)
JoinReturn ==
    /\ ui = "join"
    /\ ui' = "idle"
    /\ told' = [told EXCEPT !.resume = IF @ = "stopping" THEN "stopped" ELSE @]
    /\ last' = History("join", "", ~Alive(thread))
    /\ UNCHANGED <<core, thread, active, workers>>

\* "while True": the loop head ignoring the flag
AfterWhile_Forever(flag) == "if"

\* "while self.active": where the loop goes on reading the flag
AfterWhile(flag) == IF flag THEN "if" ELSE "done"

\* "if self.core.running": a burst, or the 0.1 s sleep
AfterIf(flag) == IF flag THEN "for" ELSE "idle"

\* after the k-th step of a burst: the next step, or the 1 ms sleep
AfterStep(k) == IF k < BurstSize THEN "for" ELSE "yield"

\* one move of worker w in _run_loop: the read of self.active, the read of
\* self.core.running, one step() of the burst, or the end of a sleep.  A burst is
\* begun only while the cycle counter leaves room for it (MaxCycles).
RunLoop(w) ==
    /\ Alive(w)
    /\ \/ /\ workers[w].at = "while"
          /\ workers' = [workers EXCEPT ![w].at = AfterWhile(active)]
          /\ UNCHANGED <<core, told, last>>
       \/ /\ workers[w].at = "if"
          /\ core.running => core.cycles + BurstSize <= MaxCycles
          /\ workers' = [workers EXCEPT ![w] = [at |-> AfterIf(core.running), i |-> 0]]
          /\ UNCHANGED <<core, told, last>>
       \/ /\ workers[w].at = "for"
          /\ core' = step(core)
          /\ workers' = [workers EXCEPT ![w] = [at |-> AfterStep(@.i + 1), i |-> @.i + 1]]
          /\ told' = [told EXCEPT !.resume =
                         IF @ = "restarted" /\ ~core.paused THEN "resumed" ELSE @]
          /\ last' = History("step", "", TRUE)
       \/ /\ workers[w].at \in {"yield", "idle"}
          /\ workers' = [workers EXCEPT ![w].at = "while"]
          /\ UNCHANGED <<core, told, last>>
    /\ UNCHANGED <<thread, active, ui>>

\* the file the UI loads while the worker runs
CtlPaths == {"romA"}

\* (a load is explored only while the cycle counter leaves room for a burst)
UiLoadRom(path) ==
    /\ core.cycles + BurstSize <= MaxCycles
    /\ LoadRom(path)

CtlNext ==
    \/ Start
    \/ StopActive
    \/ StopRunning
    \/ JoinReturn
    \/ \E path \in CtlPaths : UiLoadRom(path)
    \/ Reset
    \/ TogglePause
    \/ \E w \in 1 .. MaxThreads : RunLoop(w)

CtlSpec == Init /\ [][CtlNext]_vars

\* the worker thread is scheduled, its sleeps end, and the UI thread finishes the
\* stop() it is in
FairCtlSpec ==
    /\ CtlSpec
    /\ WF_vars(\E w \in 1 .. MaxThreads : RunLoop(w))
    /\ WF_vars(StopRunning)
    /\ WF_vars(JoinReturn)

----------------------------------------------------------------------------
(* The UI thread reading the engine's state while a worker runs bursts *)

\* the last two of a sequence of readings, after one more
Reading(seen, value) ==
    IF Len(seen) < 2 THEN Append(seen, value) ELSE <<seen[2], value>>

\* get_state_string(): the UI thread reads self.core.cycles (with pc and four
\* registers, which it formats and which no claim follows).  A read changes
\* nothing of the program; the readings since the last reset() are kept in told.
Snapshot ==
    /\ ui = "idle"
    /\ told' = [told EXCEPT !.seen = Reading(@, core.cycles)]
    /\ UNCHANGED <<core, thread, active, workers, ui, last>>

\* a worker running bursts with the UI thread loading, resetting, pausing and
\* reading the state; stop() is not called
SnapNext ==
    \/ Start
    \/ \E path \in CtlPaths : UiLoadRom(path)
    \/ Reset
    \/ TogglePause
    \/ \E w \in 1 .. MaxThreads : RunLoop(w)
    \/ Snapshot

SnapSpec == Init /\ [][SnapNext]_vars

----------------------------------------------------------------------------
(* Claims about the engine, checked under Spec *)

\* the step() that ran last was not paused, and what it fetched
Stepped      == last.op = "step" /\ ~last.pre.paused
SteppedPc    == FetchPc(last.pre)
SteppedInstr == FetchedInstr(last.pre)
Corrected(c) == PhysAddr(c.pc) + 4 > c.memory.len

\* C1: register index 0 reads as 0 in every reachable state, whatever instructions
\* (ADD, ADDI, LUI with destination 0 included) have been executed.
C1_ZeroRegisterReadsZero == core.regs[0] = Zero32

\* C2: a step() that executes BNE with sign-extended offset off leaves
\* PC = fetch PC + 4 + 4*off when regs[rs] # regs[rt], and fetch PC + 4 otherwise.
C2_BneTarget ==
    (Stepped /\ Opcode(SteppedInstr) = 5) =>
        LET off == c_short(Imm16(SteppedInstr))
        IN  IF last.pre.regs[Rs(SteppedInstr)] # last.pre.regs[Rt(SteppedInstr)]
            THEN core.pc = WAddInt(SteppedPc, 4 + 4 * off)
            ELSE core.pc = WAddInt(SteppedPc, 4)

\* C3: a load that returns false leaves the whole engine as it was: memory image,
\* PC, registers, cycle counter and running flag.
C3_FailedLoadChangesNothing ==
    (last.op = "load" /\ ~last.ok) => core = last.pre

\* C4: every step() made while paused is false increases the cycle counter by
\* exactly 1, whatever word it fetched and also when it corrected the PC.
C4_StepCountsOneCycle ==
    Stepped => core.cycles = last.pre.cycles + 1

\* C4's case: an unpaused step that found the PC out of bounds and corrected it
C4_Witness ==
    Stepped /\ Corrected(last.pre) /\ last.pre.cycles > 0

\* C5: a step() made while paused is true changes nothing: PC, registers, memory
\* image and cycle counter are as before, also when the PC is out of bounds.
C5_PausedStepChangesNothing ==
    (last.op = "step" /\ last.pre.paused) =>
        /\ core.pc = last.pre.pc
        /\ core.regs = last.pre.regs
        /\ core.memory = last.pre.memory
        /\ core.cycles = last.pre.cycles

\* C5's case: a paused step with the PC out of the memory bounds
C5_Witness ==
    last.op = "step" /\ last.pre.paused /\ Corrected(last.pre) /\ last.pre.cycles > 0

\* C6: after any sequence of loads and steps, reset() leaves all 32 registers 0,
\* the cycle counter 0, PC = 0x80000400 and the running flag false.
C6_ResetState ==
    last.op = "reset" =>
        /\ \A r \in 0 .. 31 : core.regs[r] = Zero32
        /\ core.cycles = 0
        /\ core.pc = ResetVector
        /\ core.running = FALSE

\* C6's case: a reset of an engine that was running with registers, PC and cycle
\* counter all away from their reset values
C6_Witness ==
    /\ last.op = "reset"
    /\ last.pre.running
    /\ last.pre.cycles > 0
    /\ last.pre.pc # ResetVector
    /\ \E r \in 0 .. 31 : last.pre.regs[r] # Zero32

\* C14: in every state reached by loads (any entry point), resets and steps the
\* PC is an unsigned 32-bit value, 0 <= PC < 2^32, also after a taken BNE with a
\* negative offset and after the advance by 4.
C14_PcIsU32 == IsU32(core.pc)

\* the value x mod 2^32 of the integer hi * 2^16 + lo
Mod32(hi, lo) == <<(hi + (lo \div Limb)) % Limb, lo % Limb>>

\* C15: every register holds a value in 0 .. 2^32 - 1; ADD writes
\* (regs[rs] + regs[rt]) mod 2^32, ADDI writes (regs[rs] + sign_extend16(imm))
\* mod 2^32 (regs[rs] - 1 mod 2^32 for immediate 0xFFFF), LUI writes imm * 2^16.
C15_RegistersWrap ==
    /\ \A r \in 0 .. 31 : IsU32(core.regs[r])
    /\ Stepped =>
          LET instr == SteppedInstr
              a     == last.pre.regs[Rs(instr)]
              b     == last.pre.regs[Rt(instr)]
              imm   == Imm16(instr)
              simm  == IF imm >= 32768 THEN imm - 65536 ELSE imm
          IN  /\ (Opcode(instr) = 0 /\ Funct(instr) = 32) =>
                    core.regs[Rd(instr)] = Mod32(a[1] + b[1], a[2] + b[2])
              /\ Opcode(instr) = 8 =>
                    /\ core.regs[Rt(instr)] = Mod32(a[1], a[2] + simm)
                    /\ imm = 65535 =>
                          core.regs[Rt(instr)] =
                              IF a = Zero32 THEN <<65535, 65535>>
                              ELSE IF a[2] = 0 THEN <<a[1] - 1, 65535>>
                              ELSE <<a[1], a[2] - 1>>
              /\ Opcode(instr) = 15 => core.regs[Rt(instr)] = <<imm, 0>>

\* C15's case: an ADD whose sum is 2^32 or more
C15_Witness ==
    /\ Stepped
    /\ Opcode(SteppedInstr) = 0
    /\ Funct(SteppedInstr) = 32
    /\ last.pre.regs[Rs(SteppedInstr)][1] + last.pre.regs[Rt(SteppedInstr)][1] >= Limb

\* C16: a step() that executes J with target field T leaves the PC with the top
\* 4 bits of fetch PC + 4 and T * 4 in the low 28 bits.
C16_JumpTarget ==
    (Stepped /\ Opcode(SteppedInstr) = 2) =>
        LET T_hi   == SteppedInstr[1] % 1024
            T_lo   == SteppedInstr[2]
            next   == WAddInt(SteppedPc, 4)
            region == ((next[1] % Limb) \div 4096) * 4096
        IN  core.pc = <<region + T_hi * 4 + (T_lo \div 16384), (T_lo * 4) % Limb>>

\* C16's case: T = 0x00100000 fetched in region 0x8 gives PC 0x80400000
C16_Witness ==
    /\ Stepped
    /\ SteppedInstr = JType(1048576)
    /\ SteppedPc[1] = 32768
    /\ core.pc = <<32832, 0>>

\* the file a load named
Loaded == FileSystem(last.arg).data

\* C17: a load that returns true sets PC to the big-endian word at input bytes
\* 8..11, copies the first min(len(input), 8 MiB) input bytes to memory from offset
\* 0 on, leaves the rest of memory, its size, the registers and the cycle counter
\* as they were, and leaves running true.
C17_SuccessfulLoad ==
    (last.op = "load" /\ last.ok) =>
        LET n == Min(Loaded.len, MemSize)
        IN  /\ Loaded.len >= 12
            /\ core.pc = <<Byte(Loaded, 8) * 256 + Byte(Loaded, 9),
                           Byte(Loaded, 10) * 256 + Byte(Loaded, 11)>>
            /\ core.memory.len = MemSize
            /\ last.pre.memory.len = MemSize
            /\ \A i \in DOMAIN core.memory.at \cup DOMAIN last.pre.memory.at
                                                \cup DOMAIN Loaded.at :
                    (i < MemSize) =>
                        Byte(core.memory, i) =
                            IF i < n THEN Byte(Loaded, i) ELSE Byte(last.pre.memory, i)
            /\ \A i \in DOMAIN core.memory.at : i < MemSize /\ core.memory.at[i] # 0
            /\ core.regs = last.pre.regs
            /\ core.cycles = last.pre.cycles
            /\ core.paused = last.pre.paused
            /\ core.running

\* C17's case: a file longer than the image, loaded into an engine that has run
C17_Witness ==
    /\ last.op = "load"
    /\ last.ok
    /\ Loaded.len > MemSize
    /\ last.pre.cycles > 0
    /\ \E r \in 0 .. 31 : last.pre.regs[r] # Zero32
    /\ last.pre.memory # core.memory

\* C18: every fetch of an unpaused step() reads 4 bytes inside the 8 MiB image; a
\* PC whose physical address + 4 is past the image is first replaced by 0x80000400
\* and the fetch is made at 0x400, so the read is never short.
C18_FetchInsideImage ==
    /\ core.memory.len = MemSize
    /\ Stepped =>
          LET phys_addr == PhysAddr(SteppedPc)
          IN  /\ phys_addr >= 0
              /\ phys_addr + 4 <= last.pre.memory.len
              /\ Len(Slice(last.pre.memory, phys_addr, phys_addr + 4)) = 4
              /\ Corrected(last.pre) =>
                    /\ phys_addr = 1024
                    /\ Opcode(Fetch(last.pre.memory, 1024)) \notin {2, 5} =>
                           core.pc = <<32768, 1028>>

\* C18's case: a step with the PC one word past the end of the image
C18_Witness ==
    /\ Stepped
    /\ PhysAddr(last.pre.pc) = MemSize
    /\ core.pc = <<32768, 1028>>

\* C19: no step() changes the memory image, whatever word it executes (SW
\* included); LW changes no register; reset() and toggle_pause write no memory.
C19_StepWritesNoMemory ==
    /\ last.op \in {"step", "reset", "pause"} => core.memory = last.pre.memory
    /\ (Stepped /\ Opcode(SteppedInstr) = 35) => core.regs = last.pre.regs

\* C19's case: an SW whose effective address is inside the image
C19_Witness ==
    /\ Stepped
    /\ Opcode(SteppedInstr) = 43
    /\ PhysAddr(WAddInt(last.pre.regs[Rs(SteppedInstr)],
                         c_short(Imm16(SteppedInstr)))) + 4 <= MemSize

----------------------------------------------------------------------------
(* Claims about the controller, checked under CtlSpec, FairCtlSpec and SnapSpec *)

\* C7: with a worker executing bursts on a running, unpaused engine, stop() followed
\* at once by start() (no load, no reset between) resumes burst execution: when
\* start() has returned the controller is executing bursts again, that is the
\* active flag and the engine's running flag are true and a worker is alive.
C7_StopStartResumes ==
    (told.resume = "restarted") => (active /\ core.running /\ AliveWorkers # {})

\* C8: at most one worker thread is alive at any time, and a start() called while a
\* worker is alive creates no thread.
C8_OneWorker ==
    /\ Cardinality(AliveWorkers) <= 1
    /\ (last.op = "start" /\ last.ctl.alive) => Len(workers) = last.ctl.threads

\* C8's case: start() called after a stop() whose join timed out, the worker of
\* before still alive
C8_Witness ==
    /\ last.op = "start"
    /\ ~last.ctl.active
    /\ last.ctl.alive
    /\ Len(workers) = 1

\* C9: from the return of a start() call to the next stop() call, the active flag
\* is true and a worker running the burst loop is alive.
C9_StartedMeansActiveWorker ==
    told.started => (active /\ AliveWorkers # {})

\* C10: once active is false, and unless a start() sets it true again, the worker
\* leaves its loop; a worker that reads active false at the loop head runs no burst.
C10_WorkerExitsAfterStop ==
    /\ (~active) ~> (active \/ AliveWorkers = {})
    /\ [][\A w \in DOMAIN workers :
            (workers[w].at = "while" /\ ~active /\ workers'[w] # workers[w])
                => workers'[w].at = "done"]_vars

\* C10's case: a worker that was in a burst when stop() cleared the flag has ended
C10_Witness ==
    /\ ~active
    /\ AliveWorkers = {}
    /\ Len(workers) > 0
    /\ last.op = "step"
    /\ ~last.ctl.active

\* the worker w that is inside a burst, at least one step() of it done and at least
\* one to come
MidBurst(w) == Alive(w) /\ workers[w].at = "for" /\ workers[w].i > 0

\* C11: when the UI thread sets paused true while a burst is in progress, the next
\* step() of that burst still executes an instruction and counts a cycle (the
\* worker honours paused at burst boundaries only).
C11_PauseWaitsForBurstEnd ==
    [][\A w \in DOMAIN workers :
          (/\ last.op = "pause" /\ ~last.pre.paused /\ core.paused
           /\ MidBurst(w)
           /\ workers'[w].i = workers[w].i + 1)
              => core'.cycles = core.cycles + 1]_vars

\* C12: a load that writes the memory image or the PC does so between bursts: when
\* it returns, no worker is in the middle of a burst.
C12_LoadOnlyBetweenBursts ==
    (last.op = "load" /\ (core.memory # last.pre.memory \/ core.pc # last.pre.pc))
        => \A w \in DOMAIN workers : ~MidBurst(w)

\* C13: without a reset() between them, the cycle counts read by two successive
\* get_state_string() calls do not decrease, however the worker's steps, the
\* loads and the pauses interleave with the reads.
C13_SnapshotCyclesMonotonic ==
    Len(told.seen) = 2 => told.seen[1] <= told.seen[2]

\* C13's case: two reads with a worker step between them, the worker in a burst
C13_Witness ==
    /\ Len(told.seen) = 2
    /\ told.seen[1] < told.seen[2]
    /\ \E w \in DOMAIN workers : MidBurst(w)

\* C20: reset() called in the middle of a burst: when the worker has made the last
\* step() of that burst (the next thing it reads is running, false), the engine is
\* in the reset state.
C20_ResetDuringBurst ==
    [][\A w \in DOMAIN workers :
          (/\ last.op = "reset"
           /\ MidBurst(w)
           /\ workers'[w].at = "yield")
              => /\ \A r \in 0 .. 31 : core'.regs[r] = Zero32
                 /\ core'.cycles = 0
                 /\ core'.pc = ResetVector]_vars

====
